---------------------------- MODULE Spec2Model ----------------------------
(***************************************************************************)
(* A model of update_vott_assets.py: the File Matcher                      *)
(* (get_single_file_with_suffix), the Identifier Mapper                    *)
(* (map_old_vott_path_and_id_to_new) and the two passes of main.           *)
(*                                                                         *)
(* Strings are sequences of tokens.  A token is a character, or a literal  *)
(* the program never looks inside ("file:", "%20", "vott", "asset.json").  *)
(* Identifiers are strings of hexadecimal characters; md5 is a fixed       *)
(* function that is injective on the candidate paths of the model.         *)
(* Paths follow the POSIX rules of os.path.                                *)
(***************************************************************************)
EXTENDS Naturals, Sequences, FiniteSets

VARIABLES
    \* ---- main ----
    pc,                              \* position of main in its code
    run,                             \* 1: first invocation, 2: second one
    target_directory,                \* file name -> contents (sequence of lines)
    new_source_directory,            \* the argument, as resolved by click
    npm_ready_new_source_directory,  \* line 103
    vott_file,                       \* line 106
    vott_dict,                       \* line 110: the asset records, in file order
    old_source_directory,            \* line 117
    old_to_new_ids,                  \* line 120: sequence of <<old id, new id>>
    old_asset_paths,                 \* line 123: the glob's result still to visit
    visited,                         \* history: the per-asset files visited, in order
    dir_at_start,                    \* history: target_directory when the run began
    ids_at_start,                    \* history: old_to_new_ids of the first run
    dir_after_first,                 \* history: target_directory after the first run
    \* ---- get_single_file_with_suffix on its own ----
    directory,                       \* the names in the directory
    suffix,                          \* a string, or a list of strings
    final_file,                      \* what the call returned or raised
    \* ---- the body of the rewriting loop on its own ----
    line,                            \* the line as read
    written                          \* what sys.stdout.write received

mainVars == <<pc, run, target_directory, new_source_directory,
              npm_ready_new_source_directory, vott_file, vott_dict,
              old_source_directory, old_to_new_ids, old_asset_paths,
              visited, dir_at_start, ids_at_start, dir_after_first>>
matchVars == <<directory, suffix, final_file>>
lineVars == <<line, written>>
vars == <<mainVars, matchVars, lineVars>>

----------------------------------------------------------------------------
(* Bounds *)

MaxAssets == 2           \* asset records in the manifest
MaxLineLen == 4          \* tokens in a line given to the rewriting loop alone
HexChars == {"a", "b"}   \* the hexadecimal characters used
Ids == {<<h1, h2>> : h1 \in HexChars, h2 \in HexChars}   \* hexdigest strings
Names == {<<"x">>, <<"y">>}                              \* asset base names

----------------------------------------------------------------------------
(* Strings *)

Range(s) == {s[i] : i \in DOMAIN s}

StartsWith(s, p) == Len(p) <= Len(s) /\ SubSeq(s, 1, Len(p)) = p

EndsWith(s, p) == Len(p) <= Len(s) /\ SubSeq(s, Len(s) - Len(p) + 1, Len(s)) = p

Drop(s, n) == SubSeq(s, n + 1, Len(s))

RECURSIVE Interleave(_, _)
\* new before every token of s, and once more at the end
Interleave(s, new) ==
    IF s = <<>> THEN new ELSE new \o <<Head(s)>> \o Interleave(Tail(s), new)

RECURSIVE ReplaceFrom(_, _, _)
ReplaceFrom(s, old, new) ==
    IF Len(s) < Len(old) THEN s
    ELSE IF StartsWith(s, old)
         THEN new \o ReplaceFrom(Drop(s, Len(old)), old, new)
         ELSE <<Head(s)>> \o ReplaceFrom(Tail(s), old, new)

\* str.replace(old, new): every occurrence, found left to right, not overlapping
Replace(s, old, new) ==
    IF old = <<>> THEN Interleave(s, new) ELSE ReplaceFrom(s, old, new)

RECURSIVE IndexOf(_, _)
\* str.find(c) for a single token c, 1-based; 0 when absent
IndexOf(s, c) ==
    IF s = <<>> THEN 0
    ELSE IF Head(s) = c THEN 1
    ELSE LET i == IndexOf(Tail(s), c) IN IF i = 0 THEN 0 ELSE i + 1

RECURSIVE LastIndexOf(_, _)
LastIndexOf(s, c) ==
    IF s = <<>> THEN 0
    ELSE IF s[Len(s)] = c THEN Len(s)
    ELSE LastIndexOf(SubSeq(s, 1, Len(s) - 1), c)

RECURSIVE RStrip(_, _)
RStrip(s, c) ==
    IF s # <<>> /\ s[Len(s)] = c THEN RStrip(SubSeq(s, 1, Len(s) - 1), c) ELSE s

\* str.split(c)[0]
FirstField(s, c) ==
    LET i == IndexOf(s, c) IN IF i = 0 THEN s ELSE SubSeq(s, 1, i - 1)

RECURSIVE Split(_, _)
\* str.split(c)
Split(s, c) ==
    LET i == IndexOf(s, c)
    IN  IF i = 0 THEN <<s>> ELSE <<SubSeq(s, 1, i - 1)>> \o Split(Drop(s, i), c)

----------------------------------------------------------------------------
(* os.path *)

SEP == <<"/">>

PathJoin(a, b) ==
    IF StartsWith(b, SEP) THEN b
    ELSE IF a = <<>> \/ EndsWith(a, SEP) THEN a \o b
    ELSE a \o SEP \o b

\* os.path.split: <<head, tail>>
PathSplit(p) ==
    LET i == LastIndexOf(p, "/")
        head == SubSeq(p, 1, i)
        tail == Drop(p, i)
    IN  IF head # <<>> /\ Range(head) # {"/"} THEN <<RStrip(head, "/"), tail>>
        ELSE <<head, tail>>

----------------------------------------------------------------------------
(* glob *)

\* glob.glob(os.path.join(dir, '*' + suf)): the names ending with suf;
\* a leading '*' does not match a name that begins with a dot
Glob(names, suf) == {n \in names : EndsWith(n, suf) /\ ~StartsWith(n, <<".">>)}

----------------------------------------------------------------------------
(* get_single_file_with_suffix *)

\* A suffix argument: list tells a list of suffixes from a single string.
StrSuffix(s) == [list |-> FALSE, sufs |-> <<s>>]
ListSuffix(ss) == [list |-> TRUE, sufs |-> ss]

RECURSIVE CandidateCount(_, _)
\* len(candidate_files): one glob per suffix, the results concatenated
CandidateCount(names, sufs) ==
    IF sufs = <<>> THEN 0
    ELSE Cardinality(Glob(names, Head(sufs))) + CandidateCount(names, Tail(sufs))

\* the names in candidate_files
CandidateFiles(names, sufs) == UNION {Glob(names, sufs[i]) : i \in DOMAIN sufs}

GetSingleFileWithSuffix(names, suf) ==
    LET n == CandidateCount(names, suf.sufs)
    IN  IF n > 1 THEN [status |-> "Should have no more than one", file |-> <<>>]
        ELSE IF n = 0 THEN [status |-> "No file found", file |-> <<>>]
        ELSE [status |-> "returned",
              file |-> CHOOSE f \in CandidateFiles(names, suf.sufs) : TRUE]

----------------------------------------------------------------------------
(* The files of the model *)

VOTT == <<".", "vott">>              \* the suffix '.vott'
ASSET == <<"-", "asset.json">>       \* the suffix '-asset.json'
BAR == "|"                           \* the punctuation between two JSON values

NewDirs == {<<"/", "n", " ", "m">>, <<"/", "n">>}   \* new_source_directory
OldDirs == {<<"/", "o">>, <<"/">>}                  \* where the assets were

\* re.sub(' ', '%20', new_source_directory)
NpmReady(dir) == Replace(dir, <<" ">>, <<"%20">>)

\* 'file:' + os.path.join(directory_name, name)
SourceAssetPath(directory_name, name) == <<"file:">> \o PathJoin(directory_name, name)

CandidatePaths == {SourceAssetPath(NpmReady(d), n) : d \in NewDirs, n \in Names}

Injective(f) == \A x, y \in DOMAIN f : x # y => f[x] # f[y]

\* hashlib.md5(...).hexdigest() on the paths the model hashes: no two collide
md5 == CHOOSE f \in [CandidatePaths -> Ids] : Injective(f)

Md5Hex(s) == md5[s]

\* An asset record of the manifest; its key in 'assets' is its id.
Asset(id, name, dir) == [id |-> id, name |-> name, path |-> SourceAssetPath(dir, name)]

\* The text of a record, one line of the manifest, and back.
AssetLine(r) == r.id \o <<BAR>> \o r.name \o <<BAR>> \o r.path

ParseAsset(l) ==
    LET f == Split(l, BAR) IN [id |-> f[1], name |-> f[2], path |-> f[3]]

AssetFileName(id) == id \o ASSET

----------------------------------------------------------------------------
(* dict *)

Keys(d) == {d[i][1] : i \in DOMAIN d}

\* d[k]
Get(d, k) == LET i == CHOOSE i \in DOMAIN d : d[i][1] = k IN d[i][2]

\* d[k] = v: a key already there keeps its place
Put(d, k, v) ==
    IF k \in Keys(d)
    THEN [i \in DOMAIN d |-> IF d[i][1] = k THEN <<k, v>> ELSE d[i]]
    ELSE Append(d, <<k, v>>)

RECURSIVE JsonLoadFrom(_, _)
JsonLoadFrom(lines, d) ==
    IF lines = <<>> THEN d
    ELSE LET r == ParseAsset(Head(lines)) IN JsonLoadFrom(Tail(lines), Put(d, r.id, r))

\* json.load: list(vott_dict['assets'].values())
JsonLoad(lines) ==
    LET d == JsonLoadFrom(lines, <<>>) IN [i \in DOMAIN d |-> d[i][2]]

----------------------------------------------------------------------------
(* map_old_vott_path_and_id_to_new *)

\* the path hashed once, for the first asset, and used for all of them
MapHashesFirstName(assets, directory_name) ==
    [i \in DOMAIN assets |->
        <<assets[i].id, Md5Hex(SourceAssetPath(directory_name, assets[1].name))>>]

RECURSIVE MapFrom(_, _, _)
MapFrom(assets, directory_name, ids) ==
    IF assets = <<>> THEN ids
    ELSE MapFrom(Tail(assets), directory_name,
                 Put(ids, Head(assets).id,
                     Md5Hex(SourceAssetPath(directory_name, Head(assets).name))))

MapOldVottPathAndIdToNew(assets, directory_name) == MapFrom(assets, directory_name, <<>>)

----------------------------------------------------------------------------
(* The body of the rewriting loop, lines 143-159 *)

RECURSIVE ReplaceIds(_, _)
\* for id_pair in old_to_new_ids.items(): line = line.replace(old_id, new_id)
ReplaceIds(l, ids) ==
    IF ids = <<>> THEN l
    ELSE ReplaceIds(Replace(l, Head(ids)[1], Head(ids)[2]), Tail(ids))

RewriteLine(l, ids, old_dir, new_dir) == Replace(ReplaceIds(l, ids), old_dir, new_dir)

RewriteFile(lines, ids, old_dir, new_dir) ==
    [i \in DOMAIN lines |-> RewriteLine(lines[i], ids, old_dir, new_dir)]

----------------------------------------------------------------------------
(* The metadata directories main starts from *)

MANIFEST == <<"p">> \o VOTT                 \* the project file
SecondVott == <<"q">> \o VOTT               \* another project file
Stray == <<"z">> \o ASSET                   \* no identifier before '-asset.json'
Tagged == <<"a", "a", "-", "z">> \o ASSET   \* an identifier, then more, then the suffix
Hidden == <<".", "a", "a">> \o ASSET        \* a dot file
Extras == {SecondVott, Stray, Tagged, Hidden}
ExtraText == << <<"a", "a", "b">> >>        \* the contents of an extra file

\* The manifests: at most MaxAssets records, no two with the same id (the ids are
\* the keys of one JSON object), all in one source directory.
AssetLists ==
    {[i \in DOMAIN s |-> Asset(s[i][1], s[i][2], dir)] :
        s \in {t \in UNION {[1..n -> Ids \X Names] : n \in 0..MaxAssets} :
                  \A i, j \in DOMAIN t : i # j => t[i][1] # t[j][1]},
        dir \in OldDirs}

IdSets == {S \in SUBSET Ids : Cardinality(S) <= MaxAssets}

ManifestText(assets) == [i \in DOMAIN assets |-> AssetLine(assets[i])]

\* A per-asset file records its asset's id and path.
AssetText(id, assets, dir) ==
    IF \E i \in DOMAIN assets : assets[i].id = id
    THEN LET r == assets[CHOOSE i \in DOMAIN assets : assets[i].id = id]
         IN  << r.id \o <<BAR>> \o r.path >>
    ELSE << id \o <<BAR>> \o SourceAssetPath(dir, <<"x">>) >>

Directory(assets, dir, S, extra) ==
    [n \in {MANIFEST} \cup {AssetFileName(id) : id \in S} \cup extra |->
        IF n = MANIFEST THEN ManifestText(assets)
        ELSE IF n \in Extras THEN ExtraText
        ELSE AssetText(FirstField(n, "-"), assets, dir)]

----------------------------------------------------------------------------
(* main *)

\* the file copied, its old name left behind
RenameKeepsSource(dir, src, dst) ==
    [n \in DOMAIN dir \cup {dst} |-> IF n = dst THEN dir[src] ELSE dir[n]]

\* the new name not joined to the directory: the file leaves it
RenameOutOfDirectory(dir, src, dst) == [n \in DOMAIN dir \ {src} |-> dir[n]]

\* os.rename(src, dst) in one directory: dst is replaced when it exists
Rename(dir, src, dst) ==
    IF src = dst THEN dir
    ELSE [n \in (DOMAIN dir \ {src}) \cup {dst} |-> IF n = dst THEN dir[src] ELSE dir[n]]

\* no first asset: an empty directory string instead of an error
OldSourceDirectoryNeverRaises(assets) ==
    [raised |-> FALSE,
     dir |-> IF assets = <<>> THEN <<>> ELSE PathSplit(Drop(assets[1].path, 1))[1]]

\* lines 113-117: the directory of the first asset's path; no first asset raises
OldSourceDirectory(assets) ==
    IF assets = <<>> THEN [raised |-> TRUE, dir |-> <<>>]
    ELSE [raised |-> FALSE, dir |-> PathSplit(Drop(assets[1].path, 1))[1]]

\* old_asset_file.rsplit('-', 1)[0]
OldAssetIdBeforeLastDash(old_asset_file) ==
    SubSeq(old_asset_file, 1, LastIndexOf(old_asset_file, "-") - 1)

\* line 129: old_asset_file.split('-')[0]
OldAssetId(old_asset_file) == FirstField(old_asset_file, "-")

\* line 123: glob.glob(os.path.join(target_directory, '*-asset.json'))
AssetGlob(names) == Glob(names, ASSET)

\* line 140: the files whose contents are rewritten
RewrittenFiles(names) == Glob(names, <<>>)

MainIdle ==
    /\ pc = "idle" /\ run = 0 /\ target_directory = <<>>
    /\ new_source_directory = <<>> /\ npm_ready_new_source_directory = <<>>
    /\ vott_file = <<>> /\ vott_dict = <<>> /\ old_source_directory = <<>>
    /\ old_to_new_ids = <<>> /\ old_asset_paths = {} /\ visited = <<>>
    /\ dir_at_start = <<>> /\ ids_at_start = <<>> /\ dir_after_first = <<>>
NotCalled == [status |-> "not called", file |-> <<>>]
MatchIdle == directory = {} /\ suffix = StrSuffix(<<>>) /\ final_file = NotCalled
LineIdle == line = <<>> /\ written = <<>>

Init ==
    /\ \E assets \in AssetLists, S \in IdSets, extra \in {{}} \cup {{e} : e \in Extras},
          dir \in OldDirs :
          /\ (assets # <<>> => dir = PathSplit(Drop(assets[1].path, 1))[1])
          /\ (assets = <<>> => dir = <<"/", "o">>)
          /\ target_directory = Directory(assets, dir, S, extra)
    /\ new_source_directory \in NewDirs
    /\ pc = "start" /\ run = 1
    /\ npm_ready_new_source_directory = <<>>
    /\ vott_file = <<>> /\ vott_dict = <<>> /\ old_source_directory = <<>>
    /\ old_to_new_ids = <<>> /\ old_asset_paths = {} /\ visited = <<>>
    /\ dir_at_start = target_directory /\ ids_at_start = <<>> /\ dir_after_first = <<>>
    /\ MatchIdle /\ LineIdle

\* lines 103-110: canonicalize the argument, find the manifest, load it
OpenVott ==
    /\ UNCHANGED <<matchVars, lineVars>>
    /\ pc = "start"
    /\ npm_ready_new_source_directory' = NpmReady(new_source_directory)
    /\ LET r == GetSingleFileWithSuffix(DOMAIN target_directory, StrSuffix(VOTT))
       IN  IF r.status = "returned"
           THEN /\ vott_file' = r.file
                /\ vott_dict' = JsonLoad(target_directory[r.file])
                /\ pc' = "path"
           ELSE /\ pc' = r.status
                /\ UNCHANGED <<vott_file, vott_dict>>
    /\ UNCHANGED <<run, target_directory, new_source_directory, old_source_directory,
                   old_to_new_ids, old_asset_paths, visited, dir_at_start,
                   ids_at_start, dir_after_first>>

\* lines 113-117
DeriveOldSourceDirectory ==
    /\ UNCHANGED <<matchVars, lineVars>>
    /\ pc = "path"
    /\ LET r == OldSourceDirectory(vott_dict)
       IN  /\ pc' = IF r.raised THEN "IndexError" ELSE "map"
           /\ old_source_directory' = r.dir
    /\ UNCHANGED <<run, target_directory, new_source_directory,
                   npm_ready_new_source_directory, vott_file, vott_dict,
                   old_to_new_ids, old_asset_paths, visited, dir_at_start,
                   ids_at_start, dir_after_first>>

\* line 120
BuildMapping ==
    /\ UNCHANGED <<matchVars, lineVars>>
    /\ pc = "map"
    /\ old_to_new_ids' = MapOldVottPathAndIdToNew(vott_dict, npm_ready_new_source_directory)
    /\ ids_at_start' = IF run = 1 THEN old_to_new_ids' ELSE ids_at_start
    /\ pc' = "glob"
    /\ UNCHANGED <<run, target_directory, new_source_directory,
                   npm_ready_new_source_directory, vott_file, vott_dict,
                   old_source_directory, old_asset_paths, visited, dir_at_start,
                   dir_after_first>>

\* line 123: the glob is evaluated once, before the first rename
GlobAssets ==
    /\ UNCHANGED <<matchVars, lineVars>>
    /\ pc = "glob"
    /\ old_asset_paths' = AssetGlob(DOMAIN target_directory)
    /\ pc' = "rename"
    /\ UNCHANGED <<run, target_directory, new_source_directory,
                   npm_ready_new_source_directory, vott_file, vott_dict,
                   old_source_directory, old_to_new_ids, visited, dir_at_start,
                   ids_at_start, dir_after_first>>

\* a file without an entry in the mapping is passed over
RenameAssetSkipsUnmapped ==
    /\ UNCHANGED <<matchVars, lineVars>>
    /\ pc = "rename"
    /\ \E old_asset_file \in old_asset_paths :
          LET old_asset_id == FirstField(old_asset_file, "-")
          IN  /\ target_directory' =
                    IF old_asset_id \in Keys(old_to_new_ids)
                    THEN [n \in (DOMAIN target_directory \ {old_asset_file})
                                   \cup {AssetFileName(Get(old_to_new_ids, old_asset_id))} |->
                             IF n = AssetFileName(Get(old_to_new_ids, old_asset_id))
                             THEN target_directory[old_asset_file]
                             ELSE target_directory[n]]
                    ELSE target_directory
              /\ old_asset_paths' = old_asset_paths \ {old_asset_file}
              /\ visited' = Append(visited, old_asset_file)
              /\ pc' = pc
    /\ UNCHANGED <<run, new_source_directory, npm_ready_new_source_directory,
                   vott_file, vott_dict, old_source_directory, old_to_new_ids,
                   dir_at_start, ids_at_start, dir_after_first>>

\* lines 125-135, one turn of the loop; the glob's order is any order
RenameAsset ==
    /\ UNCHANGED <<matchVars, lineVars>>
    /\ pc = "rename"
    /\ \E old_asset_file \in old_asset_paths :
          LET old_asset_id == OldAssetId(old_asset_file)
          IN  IF old_asset_id \in Keys(old_to_new_ids)
              THEN /\ target_directory' =
                         Rename(target_directory, old_asset_file,
                                AssetFileName(Get(old_to_new_ids, old_asset_id)))
                   /\ old_asset_paths' = old_asset_paths \ {old_asset_file}
                   /\ visited' = Append(visited, old_asset_file)
                   /\ pc' = pc
              ELSE /\ pc' = "KeyError"
                   /\ UNCHANGED <<target_directory, old_asset_paths, visited>>
    /\ UNCHANGED <<run, new_source_directory, npm_ready_new_source_directory,
                   vott_file, vott_dict, old_source_directory, old_to_new_ids,
                   dir_at_start, ids_at_start, dir_after_first>>

\* lines 137-159: every file is rewritten, line by line
RewriteContents ==
    /\ UNCHANGED <<matchVars, lineVars>>
    /\ pc = "rename" /\ old_asset_paths = {}
    /\ target_directory' =
          [n \in DOMAIN target_directory |->
              IF n \in RewrittenFiles(DOMAIN target_directory)
              THEN RewriteFile(target_directory[n], old_to_new_ids,
                               old_source_directory, npm_ready_new_source_directory)
              ELSE target_directory[n]]
    /\ dir_after_first' = IF run = 1 THEN target_directory' ELSE dir_after_first
    /\ pc' = "done"
    /\ UNCHANGED <<run, new_source_directory, npm_ready_new_source_directory,
                   vott_file, vott_dict, old_source_directory, old_to_new_ids,
                   old_asset_paths, visited, dir_at_start, ids_at_start>>

\* main is run again on the directory it migrated, with the same argument
SecondRun ==
    /\ UNCHANGED <<matchVars, lineVars>>
    /\ pc = "done" /\ run = 1
    /\ run' = 2 /\ pc' = "start"
    /\ npm_ready_new_source_directory' = <<>>
    /\ vott_file' = <<>> /\ vott_dict' = <<>> /\ old_source_directory' = <<>>
    /\ old_to_new_ids' = <<>> /\ old_asset_paths' = {} /\ visited' = <<>>
    /\ dir_at_start' = target_directory
    /\ UNCHANGED <<target_directory, new_source_directory, ids_at_start, dir_after_first>>

Next ==
    \/ OpenVott
    \/ DeriveOldSourceDirectory
    \/ BuildMapping
    \/ GlobAssets
    \/ RenameAsset
    \/ RewriteContents
    \/ SecondRun

Spec == Init /\ [][Next]_vars

----------------------------------------------------------------------------
(* get_single_file_with_suffix on its own *)

DotVott == <<".", "vott">>                  \* a file named '.vott'
Picture == <<"r", ".", "jpg">>
MatchNames == {MANIFEST, SecondVott, DotVott, Picture}
Suffixes == {VOTT, <<"vott">>, <<".", "jpg">>}
SuffixArgs ==
    {StrSuffix(s) : s \in Suffixes}
    \cup {ListSuffix(<<s>>) : s \in Suffixes}
    \cup {ListSuffix(<<s, t>>) : s \in Suffixes, t \in Suffixes}

InitMatch ==
    /\ directory \in SUBSET MatchNames
    /\ suffix \in SuffixArgs
    /\ final_file = NotCalled
    /\ MainIdle /\ LineIdle

CallGetSingleFile ==
    /\ final_file = NotCalled
    /\ final_file' = GetSingleFileWithSuffix(directory, suffix)
    /\ UNCHANGED <<directory, suffix, mainVars, lineVars>>

NextMatch == CallGetSingleFile

SpecMatch == InitMatch /\ [][NextMatch]_vars

----------------------------------------------------------------------------
(* The body of the rewriting loop on its own: any line of hexadecimal      *)
(* characters, any mapping of at most two entries in either order.         *)

HexLines == UNION {[1..n -> HexChars] : n \in 0..MaxLineLen}

IdMaps ==
    {m \in UNION {[1..n -> Ids \X Ids] : n \in 0..2} :
        \A i, j \in DOMAIN m : i # j => m[i][1] # m[j][1]}

InitLine ==
    /\ line \in HexLines
    /\ written = <<>>
    /\ pc = "line" /\ run = 0 /\ target_directory = <<>>
    /\ new_source_directory = <<"/", "n">>
    /\ npm_ready_new_source_directory = NpmReady(new_source_directory)
    /\ vott_file = <<>> /\ vott_dict = <<>> /\ old_source_directory = <<"/", "o">>
    /\ old_to_new_ids \in IdMaps
    /\ old_asset_paths = {} /\ visited = <<>>
    /\ dir_at_start = <<>> /\ ids_at_start = <<>> /\ dir_after_first = <<>>
    /\ MatchIdle

WriteLine ==
    /\ pc = "line"
    /\ written' = RewriteLine(line, old_to_new_ids, old_source_directory,
                              npm_ready_new_source_directory)
    /\ pc' = "written"
    /\ UNCHANGED <<line, run, target_directory, new_source_directory,
                   npm_ready_new_source_directory, vott_file, vott_dict,
                   old_source_directory, old_to_new_ids, old_asset_paths,
                   visited, dir_at_start, ids_at_start, dir_after_first, matchVars>>

NextLine == WriteLine

SpecLine == InitLine /\ [][NextLine]_vars

----------------------------------------------------------------------------
(* Properties *)

RECURSIVE RenameAll(_, _, _)
\* the directory after the per-asset files of order are renamed, one by one
RenameAll(dir, order, ids) ==
    IF order = <<>> THEN dir
    ELSE RenameAll(Rename(dir, Head(order),
                          AssetFileName(Get(ids, OldAssetId(Head(order))))),
                   Tail(order), ids)

\* the per-asset files when the run began, and the name each is renamed to
AssetsAtStart == {n \in DOMAIN dir_at_start : EndsWith(n, ASSET) /\ n[1] # "."}
NewName(f) == AssetFileName(Get(old_to_new_ids, FirstField(f, "-")))

PassOneOver == pc = "rename" /\ old_asset_paths = {}

\* C7: a manifest without assets makes main fail while it derives the old
\* source directory: the mapping is never built, and no file is renamed or
\* rewritten.
C7_EmptyManifestFailsFirst ==
    (pc \notin {"start", "Should have no more than one", "No file found"}
        /\ vott_dict = <<>>)
    => /\ pc \in {"path", "IndexError"}
       /\ old_to_new_ids = <<>>
       /\ visited = <<>>
       /\ target_directory = dir_at_start

C7_Witness ==
    /\ pc = "IndexError" /\ vott_dict = <<>>
    /\ AssetsAtStart # {}

\* C8: N asset records with N different names give a mapping of N entries, the
\* i-th keyed by the i-th record's id, its value the hash of 'file:', the
\* canonical directory, one separator and the name; no two values are equal.
C8_OneEntryPerAsset ==
    (pc \in {"glob", "rename", "done", "KeyError"}
        /\ \A i, j \in DOMAIN vott_dict : i # j => vott_dict[i].name # vott_dict[j].name)
    => /\ Len(old_to_new_ids) = Len(vott_dict)
       /\ \A i \in DOMAIN vott_dict :
             /\ old_to_new_ids[i][1] = vott_dict[i].id
             /\ old_to_new_ids[i][2] =
                   md5[<<"file:">> \o npm_ready_new_source_directory
                       \o <<"/">> \o vott_dict[i].name]
       /\ \A i, j \in DOMAIN old_to_new_ids :
             i # j => old_to_new_ids[i][2] # old_to_new_ids[j][2]

C8_Witness ==
    /\ pc = "glob" /\ Len(vott_dict) = MaxAssets
    /\ \A i, j \in DOMAIN vott_dict : i # j => vott_dict[i].name # vott_dict[j].name
    /\ " " \in Range(new_source_directory)

\* C6: Pass 2 runs only when every per-asset file had an entry in the mapping.
\* Once a file without one is met nothing more happens: that file and the files
\* not yet visited are there under their old names, the directory is the one the
\* renames made so far left, and so every file still has the contents of a file
\* of the start.
C6_AbortOnMissingMapping ==
    /\ pc = "done" => \A f \in AssetsAtStart : OldAssetId(f) \in Keys(old_to_new_ids)
    /\ pc = "KeyError" =>
          /\ \E f \in old_asset_paths : OldAssetId(f) \notin Keys(old_to_new_ids)
          /\ old_asset_paths \subseteq DOMAIN target_directory
          /\ old_asset_paths \cup Range(visited) = AssetsAtStart
          /\ target_directory = RenameAll(dir_at_start, visited, old_to_new_ids)
          /\ \A n \in DOMAIN target_directory :
                \E m \in DOMAIN dir_at_start : target_directory[n] = dir_at_start[m]
          /\ ~ENABLED Next

C6_Witness ==
    /\ pc = "KeyError"
    /\ visited # <<>>
    /\ Cardinality(old_asset_paths) >= 2
    /\ target_directory # dir_at_start

\* the names made of an identifier and '-asset.json'
HexAssetNames == {AssetFileName(id) : id \in Ids}

\* C2 as stated: after Pass 1 every per-asset file <old-id>-asset.json of the
\* start whose id the mapping sends to new-id has given way to
\* <new-id>-asset.json: the new name is there and the old one is not.
C2_AsStated ==
    PassOneOver =>
        \A o \in Keys(old_to_new_ids) :
            AssetFileName(o) \in DOMAIN dir_at_start
            => /\ AssetFileName(Get(old_to_new_ids, o)) \in DOMAIN target_directory
               /\ AssetFileName(o) \notin DOMAIN target_directory

\* C2, amended: after Pass 1 <new-id>-asset.json is there unless another
\* per-asset file of the start had that name, and <old-id>-asset.json is not
\* there unless old-id is the new identifier of a per-asset file of the start.
C2_RenamePostcondition ==
    PassOneOver =>
        \A o \in Keys(old_to_new_ids) :
            AssetFileName(o) \in DOMAIN dir_at_start
            => LET n == Get(old_to_new_ids, o)
               IN  /\ (n = o \/ AssetFileName(n) \notin DOMAIN dir_at_start)
                         => AssetFileName(n) \in DOMAIN target_directory
                   /\ (\A f \in AssetsAtStart : NewName(f) # AssetFileName(o))
                         => AssetFileName(o) \notin DOMAIN target_directory

C2_Witness ==
    /\ PassOneOver
    /\ \E o \in Keys(old_to_new_ids) :
          /\ AssetFileName(o) \in DOMAIN dir_at_start
          /\ Get(old_to_new_ids, o) # o
          /\ AssetFileName(Get(old_to_new_ids, o)) \in DOMAIN target_directory
          /\ AssetFileName(o) \notin DOMAIN target_directory

RECURSIVE SetToSeq(_)
SetToSeq(S) ==
    IF S = {} THEN <<>>
    ELSE LET x == CHOOSE x \in S : TRUE IN <<x>> \o SetToSeq(S \ {x})

\* C9 as stated: whatever the directory and the mapping, Pass 1 leaves the
\* names and contents that visiting the files in one fixed order leaves, and
\* as many per-asset files as there were.
C9_AsStated ==
    PassOneOver =>
        /\ target_directory =
              RenameAll(dir_at_start, SetToSeq(AssetsAtStart), old_to_new_ids)
        /\ Cardinality(AssetGlob(DOMAIN target_directory)) = Cardinality(AssetsAtStart)

\* no two per-asset files get the same new name, and none gets the name
\* another per-asset file has
RenamesDisjoint ==
    \A f, g \in AssetsAtStart : f # g => NewName(f) # NewName(g) /\ NewName(f) # g

\* C9, amended: when no two per-asset files get the same new name and none gets
\* the name another per-asset file has, Pass 1 leaves, in any order, every
\* other file as it was and each per-asset file's contents under its new name,
\* and as many per-asset files as there were.
C9_OrderImmaterial ==
    (PassOneOver /\ RenamesDisjoint) =>
        /\ DOMAIN target_directory =
              (DOMAIN dir_at_start \ AssetsAtStart) \cup {NewName(f) : f \in AssetsAtStart}
        /\ \A n \in DOMAIN dir_at_start \ AssetsAtStart :
              target_directory[n] = dir_at_start[n]
        /\ \A f \in AssetsAtStart : target_directory[NewName(f)] = dir_at_start[f]
        /\ Cardinality(AssetGlob(DOMAIN target_directory)) = Cardinality(AssetsAtStart)

C9_Witness ==
    /\ PassOneOver /\ RenamesDisjoint
    /\ Cardinality(AssetsAtStart) >= 2
    /\ \A f \in AssetsAtStart : NewName(f) # f

\* C10 as stated: only the names made of an identifier and '-asset.json' are
\* per-asset files: a file with another name is never renamed and never makes
\* Pass 1 fail.
C10_AsStated ==
    /\ \A i \in DOMAIN visited : visited[i] \in HexAssetNames
    /\ pc = "KeyError" =>
          \E f \in old_asset_paths \cap HexAssetNames :
              OldAssetId(f) \notin Keys(old_to_new_ids)

\* C10, amended: the per-asset files of Pass 1 are the files whose name ends
\* with '-asset.json' and does not begin with a dot, and the old identifier is
\* what comes before the first '-'.  Any other file is neither renamed nor
\* replaced during Pass 1, and Pass 1 fails only on a per-asset file whose
\* identifier, so taken, the mapping lacks.
C10_AssetFilePattern ==
    /\ pc \in {"rename", "KeyError"} =>
          /\ old_asset_paths \cup Range(visited) = AssetsAtStart
          /\ \A n \in DOMAIN dir_at_start \ AssetsAtStart :
                n \in DOMAIN target_directory /\ target_directory[n] = dir_at_start[n]
          /\ \A i \in DOMAIN visited :
                FirstField(visited[i], "-") \in Keys(old_to_new_ids)
    /\ pc = "KeyError" =>
          \E f \in old_asset_paths : FirstField(f, "-") \notin Keys(old_to_new_ids)
    /\ PassOneOver =>
          \A f \in AssetsAtStart : FirstField(f, "-") \in Keys(old_to_new_ids)

C10_Witness ==
    /\ PassOneOver
    /\ Tagged \in Range(visited)
    /\ Tagged \notin DOMAIN target_directory

\* the identifier a per-asset file's contents record
EmbeddedId(text) == FirstField(text[1], BAR)

\* C1: when main has completed on a directory whose per-asset files are all
\* named for assets of the manifest, each asset's file has the name made of the
\* asset's new identifier, its contents record that identifier, and the
\* manifest's record of the asset has it as its id.
C1_ReferencesConsistent ==
    (pc = "done" /\ run = 1
        /\ AssetsAtStart \subseteq {AssetFileName(k) : k \in Keys(ids_at_start)})
    => \A i \in DOMAIN ids_at_start :
          LET o == ids_at_start[i][1]
              n == ids_at_start[i][2]
          IN  /\ ParseAsset(target_directory[vott_file][i]).id = n
              /\ AssetFileName(o) \in DOMAIN dir_at_start
                    => /\ AssetFileName(n) \in DOMAIN target_directory
                       /\ EmbeddedId(target_directory[AssetFileName(n)]) = n

\* C5: the second run changes no name and no contents of what the first run
\* left, and ends either normally or with one of the File Matcher's two errors.
C5_SecondRunChangesNothing ==
    run = 2 =>
        /\ target_directory = dir_after_first
        /\ pc \notin {"IndexError", "KeyError"}

\* the suffixes of the argument, and the names ending with one of them
NamesWithSuffix == {n \in directory : \E i \in DOMAIN suffix.sufs : EndsWith(n, suffix.sufs[i])}

\* C4: with exactly one name ending with one of the suffixes the call returns
\* it; with none it raises 'No file found'; with several it raises 'Should
\* have no more than one' (stated for the directories without dot files, which
\* glob does not list).
C4_ExactlyOneMatch ==
    (final_file # NotCalled /\ \A n \in directory : n[1] # ".") =>
        /\ Cardinality(NamesWithSuffix) = 1
              => final_file.status = "returned" /\ final_file.file \in NamesWithSuffix
        /\ Cardinality(NamesWithSuffix) = 0 => final_file.status = "No file found"
        /\ Cardinality(NamesWithSuffix) > 1
              => final_file.status = "Should have no more than one"

\* the places of l where the old identifier of an entry of ids begins
Occurrences(l, ids) ==
    {p \in DOMAIN l : \E i \in DOMAIN ids : StartsWith(Drop(l, p - 1), ids[i][1])}

RECURSIVE AtOnce(_, _)
\* every old identifier of l replaced by its new one, in one pass over l
AtOnce(l, ids) ==
    IF l = <<>> THEN <<>>
    ELSE IF \E i \in DOMAIN ids : StartsWith(l, ids[i][1])
         THEN LET i == CHOOSE i \in DOMAIN ids : StartsWith(l, ids[i][1])
              IN  ids[i][2] \o AtOnce(Drop(l, Len(ids[i][1])), ids)
         ELSE <<Head(l)>> \o AtOnce(Tail(l), ids)

\* C3: the line written is the line read with every old identifier replaced by
\* its own new identifier, whatever the entries of the mapping and their order
\* (stated for the lines in which no two old identifiers overlap).
C3_EachIdReplacedOnce ==
    (pc = "written"
        /\ \A p, q \in Occurrences(line, old_to_new_ids) : p < q => q - p >= 2)
    => written = AtOnce(line, old_to_new_ids)

=============================================================================
